---------------------------- MODULE Spec2Model ----------------------------
(***************************************************************************)
(* A model of helix_drawer.py: the memoised helix coordinate calculator,   *)
(* the genotype parser, the batch base-symbol resolver and the three       *)
(* rendering entry points.                                                 *)
(*                                                                         *)
(* Python sequences and strings are 0-indexed, TLA+ sequences 1-indexed:   *)
(* entry[3] is record[4] here, g[0] is g[1], and an index named in a       *)
(* Python error message is the model's index minus one.                    *)
(*                                                                         *)
(* A coordinate array is represented by its identity, its number of rows   *)
(* and the number of its columns that have been written; the floating      *)
(* point values in the cells are not modelled.                             *)
(***************************************************************************)
EXTENDS Integers, Sequences, FiniteSets, TLC

(* ------------------------------ bounds -------------------------------- *)

\* Longest genotype string of a record.
MaxGenotypeLen == 2
\* Most records in a parsed data set.
MaxRecords == 3
\* Largest base_pairs passed to a rendering entry point.
MaxBasePairs == 4
\* Most lines of an input file, and most tab-separated fields of one row.
MaxLines == 4
MaxFields == 5
\* Largest base_pairs of the direct calls of calculate_helix_coordinates.
MaxCalcKey == 3
\* Largest base_pairs of the long run of distinct requests.
MaxKey == 130
\* Values that may be requested again at any time during the long run.
RepeatKeys == {1}
\* Concurrent callers, and the base_pairs values they ask for.
NThreads == 2
ConcKeys == {1, 2}

\* Characters of a genotype: one base of the palettes and one symbol the
\* palettes do not know.
Alphabet == {"G", "X"}

(* ----------------------- constants of the program ---------------------- *)

\* lru_cache(maxsize=128)
maxsize == 128
\* np.empty((base_pairs, 6)): six columns, written one assignment each
NCols == 6
\* data[:, :4]
NProjected == 4

BASE_COLORS_2D == [A |-> "red", T |-> "blue", C |-> "green", G |-> "yellow"]
BASE_COLORS_3D == [A |-> "#FF0000", T |-> "#0000FF", C |-> "#00FF00", G |-> "#FFFF00"]

(* ------------------------------- state -------------------------------- *)

VARIABLES
    cache,      \* the lru_cache of calculate_helix_coordinates: a sequence of
                \* [key, obj], least recently used first
    arrays,     \* the coordinate arrays allocated so far: id -> [rows, filled]
    misses,     \* base_pairs -> number of times its coordinates were computed
    requested,  \* the base_pairs values requested so far
    ret,        \* what the last direct call of calculate_helix_coordinates did
    th,         \* concurrent callers: thread -> [pc, key, obj, result]
    dna_data,   \* the parsed records, rows <<id, chromosome, position, genotype>>
    base_pairs, \* the configured base_pairs of the rendering run
    render,     \* entry point -> what its call did
    batch_out,  \* what the last use of process_dna_batch returned
    file,       \* the lines of the input file
    parsed      \* what parse_ancestry_dna did with it

vars == <<cache, arrays, misses, requested, ret, th, dna_data, base_pairs,
          render, batch_out, file, parsed>>

(* ------------------------------ helpers ------------------------------- *)

Min(a, b) == IF a <= b THEN a ELSE b
Max(a, b) == IF a >= b THEN a ELSE b

SetMin(S) == CHOOSE x \in S : \A y \in S : x <= y

\* seq[:n] of Python, for any integer n
Prefix(seq, n) ==
    IF n >= 0 THEN SubSeq(seq, 1, Min(n, Len(seq)))
    ELSE SubSeq(seq, 1, Max(Len(seq) + n, 0))

Genotypes == UNION {[1..n -> Alphabet] : n \in 0..MaxGenotypeLen}

\* d is a data set of at least `least` records: row i is
\* <<id, chromosome, position, genotype>>.
IsRecordSeq(d, least) ==
    \E n \in least..MaxRecords :
        \E gs \in [1..n -> Genotypes] :
            d = [i \in 1..n |-> <<i, "1", "100", gs[i]>>]

NoError == [kind |-> "none", symbols |-> {}, indices |-> {}]
KeyError(sym) == [kind |-> "KeyError", symbols |-> {sym}, indices |-> {}]
ValueError == [kind |-> "ValueError", symbols |-> {}, indices |-> {}]
\* numpy: "index i is out of bounds for axis 0 with size n"
IndexErrorAt(i) == [kind |-> "IndexError", symbols |-> {}, indices |-> {i}]
\* str: "string index out of range"
IndexError == [kind |-> "IndexError", symbols |-> {}, indices |-> {}]

(* -------------------------- process_dna_batch -------------------------- *)

\* the resolver with the default of strand B taken for strand A's test
process_dna_batch_swapped_test(batch_data) ==
    LET genotypes == [i \in 1..Len(batch_data) |-> batch_data[i][4]]
        bases1 == [i \in 1..Len(genotypes) |->
                     IF Len(genotypes[i]) > 1 THEN genotypes[i][1] ELSE "A"]
        bases2 == [i \in 1..Len(genotypes) |->
                     IF Len(genotypes[i]) > 1 THEN genotypes[i][2] ELSE "T"]
    IN  <<bases1, bases2>>

\* the resolver reading strand B's symbol of a record from the record before it
process_dna_batch_carry(batch_data) ==
    LET genotypes == [i \in 1..Len(batch_data) |-> batch_data[i][4]]
        bases1 == [i \in 1..Len(genotypes) |->
                     IF Len(genotypes[i]) > 0 THEN genotypes[i][1] ELSE "A"]
        bases2 == [i \in 1..Len(genotypes) |->
                     IF Len(genotypes[Max(i - 1, 1)]) > 1
                     THEN genotypes[Max(i - 1, 1)][2] ELSE "T"]
    IN  <<bases1, bases2>>

process_dna_batch(batch_data) ==
    LET genotypes == [i \in 1..Len(batch_data) |-> batch_data[i][4]]
        bases1 == [i \in 1..Len(genotypes) |->
                     IF Len(genotypes[i]) > 0 THEN genotypes[i][1] ELSE "A"]
        bases2 == [i \in 1..Len(genotypes) |->
                     IF Len(genotypes[i]) > 1 THEN genotypes[i][2] ELSE "T"]
    IN  <<bases1, bases2>>

\* The contiguous index ranges a set of cut points splits 1..n into: a cut
\* c ends a range at c and starts the next at c + 1.
Ranges(n, cuts) ==
    LET starts == {1} \cup {c + 1 : c \in cuts}
        EndOf(s) == IF \E c \in cuts : c >= s
                    THEN SetMin({c \in cuts : c >= s}) ELSE n
    IN  {<<s, EndOf(s)>> : s \in starts}

RECURSIVE MergeInOrder(_, _)
\* process_dna_batch on each range of data, merged in the order of the ranges
MergeInOrder(data, ranges) ==
    IF ranges = {} THEN <<<<>>, <<>>>>
    ELSE LET r == CHOOSE x \in ranges : \A y \in ranges : x[1] <= y[1]
             part == process_dna_batch(SubSeq(data, r[1], r[2]))
             rest == MergeInOrder(data, ranges \ {r})
         IN  <<part[1] \o rest[1], part[2] \o rest[2]>>

NoBatch == [op |-> "none", cuts |-> {}, bases |-> <<<<>>, <<>>>>]

ProcessBatch ==
    /\ batch_out' = [op |-> "whole", cuts |-> {},
                     bases |-> process_dna_batch(dna_data)]
    /\ UNCHANGED <<cache, arrays, misses, requested, ret, th, dna_data,
                   base_pairs, render, file, parsed>>

ProcessSharded ==
    /\ Len(dna_data) >= 1
    /\ \E cuts \in SUBSET (1..(Len(dna_data) - 1)) :
          batch_out' = [op |-> "sharded", cuts |-> cuts,
                        bases |-> MergeInOrder(dna_data,
                                               Ranges(Len(dna_data), cuts))]
    /\ UNCHANGED <<cache, arrays, misses, requested, ret, th, dna_data,
                   base_pairs, render, file, parsed>>

(* ------------------- calculate_helix_coordinates ----------------------- *)

NoObj == <<>>

Count(m, key) == IF key \in DOMAIN m THEN m[key] ELSE 0

\* position of key in the cache, 0 when it is not cached
cache_index(c, key) ==
    IF \E i \in 1..Len(c) : c[i].key = key
    THEN CHOOSE i \in 1..Len(c) : c[i].key = key
    ELSE 0

\* a hit moves the entry to the most recently used end
cache_touch(c, i) ==
    SubSeq(c, 1, i - 1) \o SubSeq(c, i + 1, Len(c)) \o <<c[i]>>

\* a store that makes room one entry too early
cache_store_early(c, key, obj) ==
    IF cache_index(c, key) > 0 THEN c
    ELSE IF Len(c) >= maxsize - 1 THEN Tail(c) \o <<[key |-> key, obj |-> obj]>>
    ELSE Append(c, [key |-> key, obj |-> obj])

\* The wrapper's store after the wrapped function returned: a key that was
\* stored meanwhile is left as it is, a full cache drops its least recently
\* used entry.
cache_store(c, key, obj) ==
    IF cache_index(c, key) > 0 THEN c
    ELSE IF Len(c) >= maxsize THEN Tail(c) \o <<[key |-> key, obj |-> obj]>>
    ELSE Append(c, [key |-> key, obj |-> obj])

\* the array np.empty returns: nothing written yet
np_empty(n) == [rows |-> n, filled |-> 0]

\* np.linspace(0, 8 * np.pi, n) raises ValueError for a negative n
linspace_ok(n) == n >= 0

\* One call of the memoised calculate_helix_coordinates from cache c, arrays a
\* and computation counts m, run to its end without interruption.
Calc(c, a, m, n) ==
    LET i == cache_index(c, n)
        id == <<n, Count(m, n) + 1>>
    IN  IF i > 0
        THEN [cache |-> cache_touch(c, i), arrays |-> a, misses |-> m,
              outcome |-> "returned", error |-> NoError, hit |-> TRUE,
              obj |-> c[i].obj]
        ELSE IF ~linspace_ok(n)
        THEN [cache |-> c, arrays |-> a, misses |-> m,
              outcome |-> "raised", error |-> ValueError, hit |-> FALSE,
              obj |-> NoObj]
        ELSE [cache |-> cache_store(c, n, id),
              arrays |-> (id :> [np_empty(n) EXCEPT !.filled = NCols]) @@ a,
              misses |-> (n :> Count(m, n) + 1) @@ m,
              outcome |-> "returned", error |-> NoError, hit |-> FALSE,
              obj |-> id]

NoRet == [base_pairs |-> 0, outcome |-> "none", error |-> NoError,
          hit |-> FALSE, obj |-> NoObj]

\* A direct call calculate_helix_coordinates(n).
Request(n) ==
    LET r == Calc(cache, arrays, misses, n)
    IN  /\ cache' = r.cache
        /\ arrays' = r.arrays
        /\ misses' = r.misses
        /\ requested' = requested \cup {n}
        /\ ret' = [base_pairs |-> n, outcome |-> r.outcome, error |-> r.error,
                   hit |-> r.hit, obj |-> r.obj]
        /\ UNCHANGED <<th, dna_data, base_pairs, render, batch_out, file, parsed>>

\* Direct calls with any small argument, the non-positive ones included.
RequestAny == \E n \in (-1)..MaxCalcKey : Request(n)

\* The long run: a value requested before and marked for repetition, or the
\* smallest value not requested yet.
NextFresh == IF requested = {} THEN 1
             ELSE (CHOOSE x \in requested : \A y \in requested : y <= x) + 1

RequestAgain == \E n \in RepeatKeys \cap requested : Request(n)

RequestFresh == NextFresh <= MaxKey /\ Request(NextFresh)

(* ------------- concurrent calls of calculate_helix_coordinates --------- *)

Threads == 1..NThreads

Idle == [pc |-> "idle", key |-> 0, obj |-> NoObj, result |-> NoObj]

\* a wrapper that enters the new array in the cache before it is written
cache_after_alloc_published(c, key, obj) == cache_store(c, key, obj)

\* What the wrapper does to the cache between the miss and the return of the
\* wrapped function: nothing.
cache_after_alloc(c, key, obj) == c

\* Thread t calls calculate_helix_coordinates(n): the wrapper looks n up; on a
\* miss the function starts, t = np.linspace(...), coords = np.empty(...).
Call(t, n) ==
    LET i == cache_index(cache, n)
        id == <<n, Count(misses, n) + 1>>
    IN  /\ th[t].pc = "idle"
        /\ IF i > 0
           THEN /\ cache' = cache_touch(cache, i)
                /\ th' = [th EXCEPT ![t] = [pc |-> "idle", key |-> n,
                                            obj |-> NoObj, result |-> cache[i].obj]]
                /\ UNCHANGED <<arrays, misses>>
           ELSE /\ linspace_ok(n)
                /\ arrays' = (id :> np_empty(n)) @@ arrays
                /\ misses' = (n :> Count(misses, n) + 1) @@ misses
                /\ cache' = cache_after_alloc(cache, n, id)
                /\ th' = [th EXCEPT ![t] = [pc |-> "fill", key |-> n,
                                            obj |-> id, result |-> NoObj]]
        /\ UNCHANGED <<requested, ret, dna_data, base_pairs, render, batch_out,
                       file, parsed>>

\* One of the six assignments coords[:, k] = ... of thread t.
Fill(t) ==
    /\ th[t].pc = "fill"
    /\ arrays[th[t].obj].filled < NCols
    /\ arrays' = [arrays EXCEPT ![th[t].obj].filled = @ + 1]
    /\ UNCHANGED <<cache, misses, requested, ret, th, dna_data, base_pairs,
                   render, batch_out, file, parsed>>

\* return coords, and the wrapper's store of the returned array.
Return(t) ==
    /\ th[t].pc = "fill"
    /\ arrays[th[t].obj].filled = NCols
    /\ cache' = cache_store(cache, th[t].key, th[t].obj)
    /\ th' = [th EXCEPT ![t] = [pc |-> "idle", key |-> th[t].key,
                                obj |-> NoObj, result |-> th[t].obj]]
    /\ UNCHANGED <<arrays, misses, requested, ret, dna_data, base_pairs,
                   render, batch_out, file, parsed>>

(* -------------------------- parse_ancestry_dna ------------------------- *)

\* A line is a comment or a row of nfields tab-separated fields; field j of
\* line i is written <<i, j>>.
Lines == {[comment |-> TRUE, nfields |-> 0]}
            \cup {[comment |-> FALSE, nfields |-> k] : k \in 1..MaxFields}

IsFile(f) == \E n \in 0..MaxLines : f \in [1..n -> Lines]

Fields(i, k) == [j \in 1..k |-> <<i, j>>]

\* the numbers of the lines of f that are not comments, in file order
DataLines(f) == SelectSeq([i \in 1..Len(f) |-> i], LAMBDA i : ~f[i].comment)

\* np.genfromtxt(file_path, delimiter='\t', dtype=str, comments='#'): the
\* first row sets the number of columns, a row with another number raises
\* ValueError, and the result is squeezed: one row or one column makes it
\* one-dimensional.
genfromtxt(f) ==
    LET d == DataLines(f)
        ncols == IF Len(d) = 0 THEN 0 ELSE f[d[1]].nfields
    IN  IF \E k \in 1..Len(d) : f[d[k]].nfields # ncols
        THEN [outcome |-> "raised", error |-> ValueError, ndim |-> 0, rows |-> <<>>]
        ELSE [outcome |-> "returned", error |-> NoError,
              ndim |-> IF Len(d) = 0 THEN 1
                       ELSE (IF Len(d) > 1 THEN 1 ELSE 0)
                            + (IF ncols > 1 THEN 1 ELSE 0),
              rows |-> [k \in 1..Len(d) |-> Fields(d[k], ncols)]]

\* data[:, :4] raises IndexError on an array of fewer than two dimensions
parse_ancestry_dna(f) ==
    LET data == genfromtxt(f)
    IN  IF data.outcome = "raised"
        THEN [outcome |-> "raised", error |-> data.error, records |-> <<>>]
        ELSE IF data.ndim < 2
        THEN [outcome |-> "raised", error |-> IndexError, records |-> <<>>]
        ELSE [outcome |-> "returned", error |-> NoError,
              records |-> [k \in 1..Len(data.rows) |->
                             Prefix(data.rows[k], NProjected)]]

NotParsed == [outcome |-> "none", error |-> NoError, records |-> <<>>]

Parse ==
    /\ parsed' = parse_ancestry_dna(file)
    /\ UNCHANGED <<cache, arrays, misses, requested, ret, th, dna_data,
                   base_pairs, render, batch_out, file>>

(* ----------------------- the rendering entry points -------------------- *)

Backends == {"generate_dna_helix", "generate_3d_helix", "generate_3dmol_helix"}

NotCalled == [outcome |-> "none", error |-> NoError, npoints |-> 0,
              symbols1 |-> <<>>, symbols2 |-> <<>>,
              colors1 |-> <<>>, colors2 |-> <<>>,
              ncolored1 |-> 0, ncolored2 |-> 0, nconnectors |-> 0,
              sphere_args |-> <<>>]

\* a call that raises saves no image and returns nothing
Raised(e) == [NotCalled EXCEPT !.outcome = "raised", !.error = e]

\* [palette[b] for b in bases]: the first symbol that is no key of the palette
\* raises KeyError(symbol)
lookup_colors(palette, bases) ==
    LET bad == {i \in 1..Len(bases) : bases[i] \notin DOMAIN palette}
    IN  IF bad # {}
        THEN [error |-> KeyError(bases[SetMin(bad)]), colors |-> <<>>]
        ELSE [error |-> NoError,
              colors |-> [i \in 1..Len(bases) |-> palette[bases[i]]]]

\* ax.scatter(x, y, z, c=colors): matplotlib takes a list of colours that is
\* empty, a single colour, or one colour per point, and raises ValueError for
\* any other length
scatter_ok(npoints, colors) == Len(colors) \in {0, 1, npoints}

\* for coord, color in zip(coordinates, colors): one sphere per pair, so as
\* many as the shorter argument; colors is returned as it came
create_batch_spheres(ncoordinates, colors) ==
    [nspheres |-> Min(ncoordinates, Len(colors)), colors |-> colors]

\* generate_dna_helix(dna_data, n) after its call r of
\* calculate_helix_coordinates(n)
dna_helix(r, data, n) ==
    IF r.outcome = "raised" THEN Raised(r.error)
    ELSE
    LET rows == r.arrays[r.obj].rows
        bases == process_dna_batch(Prefix(data, n))
        l1 == lookup_colors(BASE_COLORS_2D, bases[1])
        l2 == lookup_colors(BASE_COLORS_2D, bases[2])
    IN  IF l1.error # NoError THEN Raised(l1.error)
        ELSE IF l2.error # NoError THEN Raised(l2.error)
        ELSE IF ~scatter_ok(rows, l1.colors) \/ ~scatter_ok(rows, l2.colors)
        THEN Raised(ValueError)
        ELSE [outcome |-> "returned", error |-> NoError, npoints |-> rows,
              symbols1 |-> bases[1], symbols2 |-> bases[2],
              colors1 |-> l1.colors, colors2 |-> l2.colors,
              ncolored1 |-> rows, ncolored2 |-> rows,
              nconnectors |-> Max(n, 0), sphere_args |-> <<>>]

\* generate_3d_helix(dna_data, n) after its call r of
\* calculate_helix_coordinates(n)
helix_3d(r, data, n) ==
    IF r.outcome = "raised" THEN Raised(r.error)
    ELSE
    LET rows == r.arrays[r.obj].rows
        bases == process_dna_batch(Prefix(data, n))
        l1 == lookup_colors(BASE_COLORS_3D, bases[1])
        l2 == lookup_colors(BASE_COLORS_3D, bases[2])
        s1 == create_batch_spheres(rows, l1.colors)
        s2 == create_batch_spheres(rows, l2.colors)
    IN  IF l1.error # NoError THEN Raised(l1.error)
        ELSE IF l2.error # NoError THEN Raised(l2.error)
        ELSE [outcome |-> "returned", error |-> NoError, npoints |-> rows,
              symbols1 |-> bases[1], symbols2 |-> bases[2],
              colors1 |-> l1.colors, colors2 |-> l2.colors,
              ncolored1 |-> Min(s1.nspheres, Len(s1.colors)),
              ncolored2 |-> Min(s2.nspheres, Len(s2.colors)),
              nconnectors |-> Max(n, 0),
              sphere_args |-> <<<<rows, Len(l1.colors)>>, <<rows, Len(l2.colors)>>>>]

\* what iteration i of the loop of generate_3dmol_helix raises:
\* BASE_COLORS_3D[dna_data[i][3][0]]
mol_error(data, i) ==
    IF i > Len(data) THEN IndexErrorAt(i - 1)
    ELSE IF Len(data[i][4]) = 0 THEN IndexError
    ELSE IF data[i][4][1] \notin DOMAIN BASE_COLORS_3D THEN KeyError(data[i][4][1])
    ELSE NoError

\* generate_3dmol_helix(dna_data, n) after its call r of
\* calculate_helix_coordinates(n): one sphere per base pair, on strand A only
helix_3dmol(r, data, n) ==
    IF r.outcome = "raised" THEN Raised(r.error)
    ELSE
    LET rows == r.arrays[r.obj].rows
        bad == {i \in 1..n : mol_error(data, i) # NoError}
        symbols == [i \in 1..Max(n, 0) |-> data[i][4][1]]
    IN  IF bad # {} THEN Raised(mol_error(data, SetMin(bad)))
        ELSE [outcome |-> "returned", error |-> NoError, npoints |-> rows,
              symbols1 |-> symbols, symbols2 |-> <<>>,
              colors1 |-> [i \in 1..Len(symbols) |-> BASE_COLORS_3D[symbols[i]]],
              colors2 |-> <<>>,
              ncolored1 |-> Len(symbols), ncolored2 |-> 0,
              nconnectors |-> 0, sphere_args |-> <<>>]

\* One entry point called with the data set and the configured base_pairs.
RenderWith(b, r, result) ==
    /\ render[b].outcome = "none"
    /\ cache' = r.cache
    /\ arrays' = r.arrays
    /\ misses' = r.misses
    /\ render' = [render EXCEPT ![b] = result]
    /\ UNCHANGED <<requested, ret, th, dna_data, base_pairs, batch_out, file, parsed>>

generate_dna_helix ==
    LET r == Calc(cache, arrays, misses, base_pairs)
    IN  RenderWith("generate_dna_helix", r, dna_helix(r, dna_data, base_pairs))

generate_3d_helix ==
    LET r == Calc(cache, arrays, misses, base_pairs)
    IN  RenderWith("generate_3d_helix", r, helix_3d(r, dna_data, base_pairs))

generate_3dmol_helix ==
    LET r == Calc(cache, arrays, misses, base_pairs)
    IN  RenderWith("generate_3dmol_helix", r, helix_3dmol(r, dna_data, base_pairs))

(* --------------------------- specifications ---------------------------- *)

NoCalc ==
    /\ cache = <<>>
    /\ arrays = <<>>
    /\ misses = <<>>
    /\ requested = {}
    /\ ret = NoRet
    /\ th = [t \in Threads |-> Idle]

NoRun ==
    /\ dna_data = <<>>
    /\ base_pairs = 1
    /\ render = [b \in Backends |-> NotCalled]
    /\ batch_out = NoBatch

NoFile ==
    /\ file = <<>>
    /\ parsed = NotParsed

\* What parse_ancestry_dna can return: data[:, :4] needs a two-dimensional
\* array, which genfromtxt gives for two rows or more.
IsParsed(d) == IsRecordSeq(d, 2)

\* The rendering run: a parsed data set and a positive base_pairs, and the
\* three entry points, each called once, in any order.
Init ==
    /\ NoCalc
    /\ NoFile
    /\ IsParsed(dna_data)
    /\ base_pairs \in 1..MaxBasePairs
    /\ render = [b \in Backends |-> NotCalled]
    /\ batch_out = NoBatch

Next == generate_3d_helix \/ generate_dna_helix \/ generate_3dmol_helix

Spec == Init /\ [][Next]_vars

\* process_dna_batch on a data set, whole and by contiguous ranges.
InitBatch ==
    /\ NoCalc
    /\ NoFile
    /\ IsRecordSeq(dna_data, 0)
    /\ base_pairs = 1
    /\ render = [b \in Backends |-> NotCalled]
    /\ batch_out = NoBatch

NextBatch == ProcessBatch \/ ProcessSharded

SpecBatch == InitBatch /\ [][NextBatch]_vars

\* parse_ancestry_dna on a file.
InitParse ==
    /\ NoCalc
    /\ NoRun
    /\ IsFile(file)
    /\ parsed = NotParsed

NextParse == Parse

SpecParse == InitParse /\ [][NextParse]_vars

\* Direct calls of calculate_helix_coordinates, one after the other.
InitCalc == NoCalc /\ NoRun /\ NoFile

NextCalc == RequestAny

SpecCalc == InitCalc /\ [][NextCalc]_vars

\* A long run of calls with ever new values, with repetitions of early ones.
NextCache == RequestFresh \/ RequestAgain

SpecCache == InitCalc /\ [][NextCache]_vars

\* Threads calling calculate_helix_coordinates concurrently.
NextConc ==
    \E t \in Threads :
        \/ \E n \in ConcKeys : Call(t, n)
        \/ Fill(t)
        \/ Return(t)

SpecConc == InitCalc /\ [][NextConc]_vars

(* -------------------------------- claims ------------------------------- *)

\* The symbols the resolver gives the rendered records, and whether the
\* palette of an entry point knows them all.
Resolved == process_dna_batch(Prefix(dna_data, base_pairs))

PaletteOf(b) == IF b = "generate_dna_helix" THEN BASE_COLORS_2D ELSE BASE_COLORS_3D

Unknown(b) ==
    {u \in {1, 2} \X (1..Len(Resolved[1])) :
        Resolved[u[1]][u[2]] \notin DOMAIN PaletteOf(b)}

\* C1: after generate_dna_helix or generate_3d_helix with a positive
\* base_pairs on records whose symbols the palette knows, the points per
\* strand, the coloured points per strand and the connectors all number
\* min(base_pairs, number of records).
C1_CountsAreMin ==
    \A b \in {"generate_dna_helix", "generate_3d_helix"} :
        (render[b].outcome # "none" /\ base_pairs > 0 /\ Unknown(b) = {}) =>
            LET m == Min(base_pairs, Len(dna_data))
            IN  /\ render[b].outcome = "returned"
                /\ render[b].npoints = m
                /\ render[b].ncolored1 = m
                /\ render[b].ncolored2 = m
                /\ render[b].nconnectors = m

C3_ResolvedSymbols ==
    batch_out.op = "whole" =>
        LET b == batch_out.bases
        IN  /\ Len(b[1]) = Len(dna_data)
            /\ Len(b[2]) = Len(dna_data)
            /\ \A i \in 1..Len(dna_data) :
                  LET g == dna_data[i][4]
                  IN  /\ b[1][i] = IF g # <<>> THEN Head(g) ELSE "A"
                      /\ b[2][i] = IF Len(g) >= 2 THEN Head(Tail(g)) ELSE "T"
            /\ dna_data = <<>> => b = <<<<>>, <<>>>>

\* process_dna_batch has run on records among which one has no genotype
\* character and one has a single one.
C3_DefaultsApplied ==
    /\ batch_out.op = "whole"
    /\ \E i, j \in 1..Len(dna_data) :
          /\ Len(dna_data[i][4]) = 0
          /\ Len(dna_data[j][4]) = 1
          /\ batch_out.bases[1][i] = "A"
          /\ batch_out.bases[2][j] = "T"

\* C4: a call of calculate_helix_coordinates with base_pairs <= 0 raises, and
\* no such value is ever a key of the cache.
C4_NonPositiveRaises ==
    /\ (ret.outcome # "none" /\ ret.base_pairs <= 0) => ret.outcome = "raised"
    /\ \A i \in 1..Len(cache) : cache[i].key > 0

\* C5: when a resolved symbol of a rendered record is no key of the palette
\* in use, the entry point raises an error naming that symbol and the index
\* of its record, whichever entry point it is.
C5_UnknownSymbolNamed ==
    \A b \in Backends :
        (render[b].outcome # "none" /\ Unknown(b) # {}) =>
            /\ render[b].outcome = "raised"
            /\ render[b].error.kind = "KeyError"
            /\ \E u \in Unknown(b) :
                  /\ Resolved[u[1]][u[2]] \in render[b].error.symbols
                  /\ (u[2] - 1) \in render[b].error.indices

\* C6: when the number of coordinate rows differs from the number of resolved
\* symbols of a strand (all of them known to the palette), assembling the
\* primitives raises and nothing is drawn.
C6_MismatchRaises ==
    \A b \in {"generate_dna_helix", "generate_3d_helix"} :
        (/\ render[b].outcome # "none"
         /\ Unknown(b) = {}
         /\ \/ base_pairs # Len(Resolved[1])
            \/ base_pairs # Len(Resolved[2])) =>
            /\ render[b].outcome = "raised"
            /\ render[b].ncolored1 = 0
            /\ render[b].ncolored2 = 0
            /\ render[b].nconnectors = 0

\* C7: on a file with rows, parse_ancestry_dna raises and returns no record
\* when a row that is no comment has fewer than 4 fields; otherwise it returns
\* the first 4 fields of every such row, in file order.
C7_ShortRowRaises ==
    (parsed.outcome # "none" /\ Len(DataLines(file)) > 0) =>
        LET d == DataLines(file)
        IN  IF \E k \in 1..Len(d) : file[d[k]].nfields < NProjected
            THEN parsed.outcome = "raised" /\ parsed.records = <<>>
            ELSE /\ parsed.outcome = "returned"
                 /\ parsed.records = [k \in 1..Len(d) |-> Fields(d[k], NProjected)]

\* C8: every array a caller has received, and every array in the cache, has
\* all its columns written and as many rows as the base_pairs asked for.
C8_NoPartialResult ==
    /\ \A t \in Threads :
          th[t].result # NoObj =>
              /\ arrays[th[t].result].filled = NCols
              /\ arrays[th[t].result].rows = th[t].key
    /\ \A i \in 1..Len(cache) :
          /\ arrays[cache[i].obj].filled = NCols
          /\ arrays[cache[i].obj].rows = cache[i].key

\* Two first requests of one value both computed it: one array is cached and
\* has been returned, the other is still being written.
C8_RacingFirstRequests ==
    \E k \in ConcKeys :
        /\ {<<k, 1>>, <<k, 2>>} \subseteq DOMAIN arrays
        /\ cache_index(cache, k) > 0
        /\ \E t, u \in Threads :
              /\ th[t].result = cache[cache_index(cache, k)].obj
              /\ th[u].pc = "fill"
              /\ th[u].key = k
              /\ arrays[th[u].obj].filled \in 1..(NCols - 1)

\* C9: process_dna_batch on each range of a partition into contiguous ranges,
\* merged in the order of the ranges, gives what process_dna_batch gives on
\* the whole sequence.
C9_ShardsMergeToWhole ==
    batch_out.op = "sharded" => batch_out.bases = process_dna_batch(dna_data)

\* A sequence was resolved in three ranges, and some record of it has fewer
\* than two genotype characters.
C9_ThreeShards ==
    /\ batch_out.op = "sharded"
    /\ Cardinality(batch_out.cuts) >= 2
    /\ \E i \in 1..Len(dna_data) : Len(dna_data[i][4]) < 2
    /\ \E i \in 1..Len(dna_data) : Len(dna_data[i][4]) = 2

\* C10: on records whose resolved symbols the palette knows, every entry
\* point returns, and the strand A symbols it looked up are those of the
\* resolver: the first genotype character, or 'A' when there is none.
C10_SameSymbolsEveryBackend ==
    \A b \in Backends :
        (render[b].outcome # "none" /\ Unknown(b) = {}) =>
            /\ render[b].outcome = "returned"
            /\ render[b].symbols1 = Resolved[1]

=============================================================================
